---------------------------- MODULE Spec2Model ----------------------------
(***************************************************************************)
(* servie-lambda: the handler returned by createHandler (src/src/index.ts) *)
(* as a state machine over the JavaScript event loop.                      *)
(*                                                                         *)
(* One invocation of the handler is modelled.  The handler body runs to    *)
(* completion (lines 126-199); everything it schedules runs later as a     *)
(* promise reaction taken from a FIFO microtask queue.  Code outside the   *)
(* handler (the middleware, the client, a body stream) settles the         *)
(* middleware promise, emits 'error' / 'abort' on the request and ends or  *)
(* fails a streamed body at times of its own choosing.                     *)
(*                                                                         *)
(* Text is a sequence of character codes, a buffer a sequence of bytes.    *)
(***************************************************************************)
EXTENDS Integers, Sequences, FiniteSets, TLC

(***************************************************************************)
(* Bounds of the model.                                                    *)
(***************************************************************************)
\* 'error' / 'abort' events emitted on the request during one invocation.
MaxSignals == 2
\* Calls of logError that are told apart (the log saturates there).
MaxLog == 2
\* Header lines of a response given to toHeaders on its own.
MaxHeaderLines == 3

(***************************************************************************)
(* Text constants.                                                         *)
(***************************************************************************)
S_GET == <<71, 69, 84>>
S_POST == <<80, 79, 83, 84>>
S_test == <<47, 116, 101, 115, 116>>
S_a == <<97>>
S_b == <<98>>
S_Cannot == <<67, 97, 110, 110, 111, 116, 32>>
S_content_type == <<99, 111, 110, 116, 101, 110, 116, 45, 116, 121, 112, 101>>
S_content_length ==
  <<99, 111, 110, 116, 101, 110, 116, 45, 108, 101, 110, 103, 116, 104>>
S_text_plain == <<116, 101, 120, 116, 47, 112, 108, 97, 105, 110>>
S_response == <<114, 101, 115, 112, 111, 110, 115, 101>>
S_set_cookie == <<115, 101, 116, 45, 99, 111, 111, 107, 105, 101>>
S_Error == <<69, 114, 114, 111, 114>>
S_boom == <<98, 111, 111, 109>>
S_teapot == <<116, 101, 97, 112, 111, 116>>
S_read_failed == <<114, 101, 97, 100, 32, 102, 97, 105, 108, 101, 100>>
S_bad_predicate ==
  <<98, 97, 100, 32, 112, 114, 101, 100, 105, 99, 97, 116, 101>>
S_emitted == <<101, 109, 105, 116, 116, 101, 100>>
S_colon == <<58, 32>>
S_at_app == <<10, 32, 32, 32, 32, 97, 116, 32, 97, 112, 112>>
S_x == <<120>>
S_te == <<116, 101>>
S_v1 == <<97, 61, 97>>
S_v2 == <<98, 61, 98>>
S_v3 == <<99, 61, 99>>
S_Cannot_GET_test ==
  <<67, 97, 110, 110, 111, 116, 32, 71, 69, 84, 32, 47, 116, 101, 115, 116>>

(***************************************************************************)
(* Sequence helpers.                                                       *)
(***************************************************************************)
\* Whether needle occurs in hay as a contiguous run.
Contains(hay, needle) ==
  \E i \in 0..(Len(hay) - Len(needle)) :
    \A j \in 1..Len(needle) : hay[i + j] = needle[j]

\* The sequence s without its i-th element.
RemoveAt(s, i) == SubSeq(s, 1, i - 1) \o SubSeq(s, i + 1, Len(s))

\* String(n) for a number n >= 0: its decimal digits.
RECURSIVE DecStr(_)
DecStr(n) ==
  IF n < 10 THEN <<48 + n>> ELSE DecStr(n \div 10) \o <<48 + (n % 10)>>

toUpperCase(c) == IF c >= 97 /\ c <= 122 THEN c - 32 ELSE c
toLowerCase(c) == IF c >= 65 /\ c <= 90 THEN c + 32 ELSE c
LowerStr(s) == [i \in 1..Len(s) |-> toLowerCase(s[i])]

\* n >> k, n & 1
Bit(n, k) == (n \div (2 ^ k)) % 2


(***************************************************************************)
(* Buffer encodings (index.ts:170-172, part_003:142).                      *)
(* The model's bytes are ASCII, two-byte UTF-8 sequences and stray bytes   *)
(* that start no sequence; lead bytes of three- and four-byte sequences    *)
(* are not drawn.                                                          *)
(***************************************************************************)
\* Buffer.toString("utf8"): the code points of the bytes; a byte that is
\* part of no well-formed sequence decodes to U+FFFD.
RECURSIVE Utf8Decode(_)
Utf8Decode(b) ==
  IF b = <<>> THEN <<>>
  ELSE IF b[1] < 128 THEN <<b[1]>> \o Utf8Decode(Tail(b))
  ELSE IF b[1] >= 194 /\ b[1] <= 223 /\ Len(b) >= 2
          /\ b[2] >= 128 /\ b[2] <= 191
    THEN <<(b[1] - 192) * 64 + (b[2] - 128)>>
           \o Utf8Decode(SubSeq(b, 3, Len(b)))
  ELSE <<65533>> \o Utf8Decode(Tail(b))

\* The UTF-8 bytes of a text (Buffer.byteLength counts them).
RECURSIVE Utf8Encode(_)
Utf8Encode(s) ==
  IF s = <<>> THEN <<>>
  ELSE IF s[1] < 128 THEN <<s[1]>> \o Utf8Encode(Tail(s))
  ELSE IF s[1] < 2048
    THEN <<192 + (s[1] \div 64), 128 + (s[1] % 64)>> \o Utf8Encode(Tail(s))
  ELSE <<224 + (s[1] \div 4096), 128 + ((s[1] \div 64) % 64),
         128 + (s[1] % 64)>> \o Utf8Encode(Tail(s))

byteLength(s) == Len(Utf8Encode(s))

B64Alphabet ==
  <<65, 66, 67, 68, 69, 70, 71, 72, 73, 74, 75, 76, 77, 78, 79, 80, 81, 82,
    83, 84, 85, 86, 87, 88, 89, 90, 97, 98, 99, 100, 101, 102, 103, 104, 105,
    106, 107, 108, 109, 110, 111, 112, 113, 114, 115, 116, 117, 118, 119, 120,
    121, 122, 48, 49, 50, 51, 52, 53, 54, 55, 56, 57, 43, 47>>

B64Char(n) == B64Alphabet[n + 1]

\* Buffer.toString("base64"): three bytes to four characters, '=' padded.
RECURSIVE Base64Encode(_)
Base64Encode(b) ==
  IF b = <<>> THEN <<>>
  ELSE IF Len(b) = 1
    THEN <<B64Char(b[1] \div 4), B64Char((b[1] % 4) * 16), 61, 61>>
  ELSE IF Len(b) = 2
    THEN <<B64Char(b[1] \div 4),
           B64Char((b[1] % 4) * 16 + (b[2] \div 16)),
           B64Char((b[2] % 16) * 4), 61>>
  ELSE <<B64Char(b[1] \div 4),
         B64Char((b[1] % 4) * 16 + (b[2] \div 16)),
         B64Char((b[2] % 16) * 4 + (b[3] \div 64)),
         B64Char(b[3] % 64)>> \o Base64Encode(SubSeq(b, 4, Len(b)))

\* The value of a base64 character, -1 for a character outside the alphabet
\* ('-' and '_' stand for '+' and '/').
B64Value(c) ==
  IF c = 45 THEN 62
  ELSE IF c = 95 THEN 63
  ELSE IF \E n \in 0..63 : B64Alphabet[n + 1] = c
    THEN CHOOSE n \in 0..63 : B64Alphabet[n + 1] = c
  ELSE -1

\* The characters base64 decoding reads: those before the first '=' that
\* belong to the alphabet.
RECURSIVE B64Digits(_)
B64Digits(s) ==
  IF s = <<>> \/ s[1] = 61 THEN <<>>
  ELSE (IF B64Value(s[1]) >= 0 THEN <<B64Value(s[1])>> ELSE <<>>)
       \o B64Digits(Tail(s))

RECURSIVE B64Bytes(_)
B64Bytes(d) ==
  IF Len(d) < 2 THEN <<>>
  ELSE IF Len(d) = 2 THEN <<d[1] * 4 + (d[2] \div 16)>>
  ELSE IF Len(d) = 3
    THEN <<d[1] * 4 + (d[2] \div 16), (d[2] % 16) * 16 + (d[3] \div 4)>>
  ELSE <<d[1] * 4 + (d[2] \div 16), (d[2] % 16) * 16 + (d[3] \div 4),
         (d[3] % 4) * 64 + d[4]>> \o B64Bytes(SubSeq(d, 5, Len(d)))

\* Buffer.from(text, "base64")
Base64Decode(s) == B64Bytes(B64Digits(s))

\* Buffer.from(buffer).toString(isBase64Encoded ? "base64" : "utf8")
BufferToStringUtf8(buffer, isBase64Encoded) == Utf8Decode(buffer)
BufferToString(buffer, isBase64Encoded) ==
  IF isBase64Encoded THEN Base64Encode(buffer) ELSE Utf8Decode(buffer)

(***************************************************************************)
(* The request URL (index.ts:127-130).  The query is a sequence of         *)
(* <<key, value>> pairs, empty for null or {}; the model's keys and values *)
(* need no escaping.                                                       *)
(***************************************************************************)
RECURSIVE QueryString(_)
QueryString(q) ==
  IF q = <<>> THEN <<>>
  ELSE q[1][1] \o <<61>> \o q[1][2]
       \o (IF Len(q) > 1 THEN <<38>> \o QueryString(Tail(q)) ELSE <<>>)

format(pathname, query) ==
  pathname \o (IF query = <<>> THEN <<>> ELSE <<63>> \o QueryString(query))

(***************************************************************************)
(* Responses.  A response is [statusCode, headers, body, stream]: headers  *)
(* a sequence of <<name, value>> lines, body the bytes the body drains to, *)
(* stream whether the body is a stream still to be read (it may fail) or   *)
(* bytes held in memory.                                                   *)
(***************************************************************************)
\* A response made from a text body: the body's content type and length
\* come with it.
TextResponse(statusCode, text, more) ==
  [statusCode |-> statusCode,
   headers |-> <<<<S_content_type, S_text_plain>>>> \o more
               \o <<<<S_content_length, DecStr(byteLength(text))>>>>,
   body |-> Utf8Encode(text),
   stream |-> FALSE]

NotFoundStatus == 404
AbortStatus == 444
DefaultErrorStatus == 500

S_csp ==
  <<99, 111, 110, 116, 101, 110, 116, 45, 115, 101, 99, 117,
   114, 105, 116, 121, 45, 112, 111, 108, 105, 99, 121>>
S_nosniff == <<110, 111, 115, 110, 105, 102, 102>>
S_self ==
  <<100, 101, 102, 97, 117, 108, 116, 45, 115, 114, 99, 32, 39,
   115, 101, 108, 102, 39>>
S_xcto ==
  <<120, 45, 99, 111, 110, 116, 101, 110, 116, 45, 116, 121,
   112, 101, 45, 111, 112, 116, 105, 111, 110, 115>>

\* finalhandler(req)(): the fallback the middleware reaches through next().
finalhandlerOk(method, url) ==
  TextResponse(200, S_Cannot \o method \o <<32>> \o url,
               <<<<S_csp, S_self>>, <<S_xcto, S_nosniff>>>>)
finalhandler(method, url) ==
  TextResponse(NotFoundStatus, S_Cannot \o method \o <<32>> \o url,
               <<<<S_csp, S_self>>, <<S_xcto, S_nosniff>>>>)

\* new Response({ statusCode: 444 })
AbortResponseAs500 ==
  [statusCode |-> DefaultErrorStatus, headers |-> <<>>, body |-> <<>>,
   stream |-> FALSE]
AbortResponse ==
  [statusCode |-> AbortStatus, headers |-> <<>>, body |-> <<>>,
   stream |-> FALSE]

(***************************************************************************)
(* Errors and the error mapper.  An error is [name, message, status,       *)
(* stack]; status 0 and stack <<>> stand for a property that is not set.   *)
(***************************************************************************)
S_Internal_Server_Error ==
  <<73, 110, 116, 101, 114, 110, 97, 108, 32, 83, 101, 114, 118, 101, 114,
    32, 69, 114, 114, 111, 114>>
S_Im_a_Teapot == <<73, 39, 109, 32, 97, 32, 84, 101, 97, 112, 111, 116>>

\* http.STATUS_CODES[status], <<>> where it has no entry.
STATUS_CODES(status) ==
  IF status = DefaultErrorStatus THEN S_Internal_Server_Error
  ELSE IF status = 418 THEN S_Im_a_Teapot
  ELSE <<>>

\* String(err)
ErrString(err) == err.name \o S_colon \o err.message

MakeError(message, status, withStack) ==
  [name |-> S_Error, message |-> message, status |-> status,
   stack |-> IF withStack
             THEN S_Error \o S_colon \o message \o S_at_app ELSE <<>>]

\* The response mapError(err) returns.
mapErrorAlwaysTerse(err, production) ==
  LET status == IF err.status # 0 THEN err.status ELSE DefaultErrorStatus
  IN  TextResponse(status, STATUS_CODES(status), <<>>)
mapErrorLeaks(err, production) ==
  LET status == IF err.status # 0 THEN err.status ELSE DefaultErrorStatus
      body == IF err.stack # <<>> THEN err.stack ELSE ErrString(err)
  IN  TextResponse(status, body, <<>>)
mapError(err, production) ==
  LET status == IF err.status # 0 THEN err.status ELSE DefaultErrorStatus
      body == IF production THEN STATUS_CODES(status)
              ELSE IF err.stack # <<>> THEN err.stack ELSE ErrString(err)
  IN  TextResponse(status, body, <<>>)

(***************************************************************************)
(* Result headers (index.ts:206-223).                                      *)
(***************************************************************************)
\* mask(key, i) of bit-string-mask: the character at position p (from 0) is
\* upper-cased when bit p of i is set.
mask(key, i) ==
  [p \in 1..Len(key) |->
     IF Bit(i, p - 1) = 1 THEN toUpperCase(key[p]) ELSE key[p]]

\* Headers.asObject(): per lower-cased name, in the order of first
\* appearance, the values of its lines.
AsObjectAdd(obj, line) ==
  LET k == LowerStr(line[1]) IN
  IF \E i \in 1..Len(obj) : obj[i].key = k
  THEN [i \in 1..Len(obj) |->
          IF obj[i].key = k
          THEN [key |-> k, vals |-> Append(obj[i].vals, line[2])]
          ELSE obj[i]]
  ELSE Append(obj, [key |-> k, vals |-> <<line[2]>>])

RECURSIVE asObjectFrom(_, _)
asObjectFrom(obj, lines) ==
  IF lines = <<>> THEN obj
  ELSE asObjectFrom(AsObjectAdd(obj, Head(lines)), Tail(lines))

asObject(headers) == asObjectFrom(<<>>, headers)

\* result[key] = val on an object whose keys keep their insertion order.
SetKey(result, key, val) ==
  IF \E i \in 1..Len(result) : result[i][1] = key
  THEN [i \in 1..Len(result) |->
          IF result[i][1] = key THEN <<key, val>> ELSE result[i]]
  ELSE Append(result, <<key, val>>)

\* for (let i = 0; i < val.length; i++) result[mask(key, i)] = val[i]
RECURSIVE SetMasked(_, _, _, _)
SetMasked(result, key, vals, i) ==
  IF i >= Len(vals) THEN result
  ELSE SetMasked(SetKey(result, mask(key, i), vals[i + 1]), key, vals, i + 1)

RECURSIVE toHeadersFrom(_, _)
toHeadersFrom(result, obj) ==
  IF obj = <<>> THEN result
  ELSE toHeadersFrom(
         IF Len(Head(obj).vals) > 1
         THEN SetMasked(result, Head(obj).key, Head(obj).vals, 0)
         ELSE SetKey(result, Head(obj).key, Head(obj).vals[1]),
         Tail(obj))

toHeaders(headers) == toHeadersFrom(<<>>, asObject(headers))

\* The values a result carries for a header name, keys compared without
\* regard to case, in the order of the result's keys.
RECURSIVE ValuesOf(_, _)
ValuesOf(result, name) ==
  IF result = <<>> THEN <<>>
  ELSE (IF LowerStr(Head(result)[1]) = LowerStr(name)
        THEN <<Head(result)[2]>> ELSE <<>>) \o ValuesOf(Tail(result), name)



(***************************************************************************)
(* The invocation (index.ts:120-201).                                      *)
(***************************************************************************)
VARIABLES
  event,       \* the platform event: [httpMethod, path, queryStringParameters]
  options,     \* [isBinary, production] given to createHandler
  pc,          \* the handler: "idle", "inApp" (inside app(req, next)),
               \* "returned", "threw"
  mw,          \* the middleware's promise: "none", "pending", "settled" (its
               \* reaction is queued), "reacted" (its reaction has run)
  outcome,     \* how the middleware completed: kind "none", "response",
               \* "next", "reject" or "throw", with the response or error
  didRespond,  \* let didRespond = false (index.ts:137)
  microtasks,  \* the promise reactions queued, first in first out
  streams,     \* the streamed bodies being drained by sendResponse
  callbacks,   \* the calls of cb made so far
  logged,      \* the errors given to options.logError
  signals,     \* the number of 'error' / 'abort' events emitted so far
  settledAt,   \* the number of cb calls made when the middleware settled
  abortEarly,  \* an abort came with nothing delivered, middleware unsettled
  abortClean,  \* ... and with no other delivery under way
  hdrIn,       \* a response's header lines handed to toHeaders on its own
  hdrOut,      \* what toHeaders returned for them, <<>> before the call
  context,     \* the invocation context the platform passes
  cbGiven,     \* whether the platform passes a callback
  cbThrows,    \* whether the callback throws when it is called
  bodyUsed,    \* a 'response' listener of the middleware reads the body of
               \* every response, so that arrayBuffer() rejects
  req,         \* the request built for the middleware, NoReq before
  returned,    \* what the handler returned: "none" before it returns
  firstPath,   \* the trigger of the first sendResponse call that passed the
               \* didRespond check, "none" before
  drainFailedEarly, \* the body of the middleware's response failed to
               \* drain with nothing delivered yet
  reentered,   \* the catch handler ran for a failed stream with
               \* didRespond false
  emitted,     \* the signals req.signal has emitted, in order (the
               \* signal-based handler of part_001:225-267 only)
  focus,       \* which of two invocations in flight the variables above
               \* belong to, 1 or 2
  other        \* the variables of the other invocation, as a record

vars ==
  <<event, options, pc, mw, outcome, didRespond, microtasks, streams,
    callbacks, logged, signals, settledAt, abortEarly, abortClean,
    hdrIn, hdrOut, context, cbGiven, cbThrows, bodyUsed, req, returned,
    firstPath, drainFailedEarly, reentered, emitted, focus, other>>

\* What the platform and the middleware fix when the invocation begins.
inputVars == <<context, cbGiven, cbThrows, bodyUsed>>

\* The invocation that is not running.
otherVars == <<focus, other>>

handlerVars ==
  <<event, options, pc, mw, outcome, didRespond, microtasks, streams,
    callbacks, logged, signals, settledAt, abortEarly, abortClean,
    inputVars, req, returned, firstPath, drainFailedEarly, reentered,
    emitted, otherVars>>

(***************************************************************************)
(* Inputs.                                                                 *)
(***************************************************************************)
\* "already used", "cb is not a function"
S_already_used ==
  <<97, 108, 114, 101, 97, 100, 121, 32, 117, 115, 101, 100>>
\* "cb failed"
S_cb_failed == <<99, 98, 32, 102, 97, 105, 108, 101, 100>>
S_not_a_function ==
  <<99, 98, 32, 105, 115, 32, 110, 111, 116, 32, 97, 32, 102, 117, 110, 99,
    116, 105, 111, 110>>
\* "127.0.0.1", "128", "fn", "id-1", "id-2", "h\u00e9", "aMOp", "accept"
S_ip == <<49, 50, 55, 46, 48, 46, 48, 46, 49>>
S_128 == <<49, 50, 56>>
S_fn == <<102, 110>>
S_id1 == <<105, 100, 45, 49>>
S_id2 == <<105, 100, 45, 50>>
S_he == <<104, 233>>
S_b64 == <<97, 77, 79, 112>>
S_accept == <<97, 99, 99, 101, 112, 116>>

\* event.requestContext with identity.sourceIp: ip is <<>> when the property
\* is missing, <<text>> otherwise.
WithIp(ip) == <<[identity |-> <<[sourceIp |-> ip]>>]>>

\* The event of the tests, and one with a query, headers and a base64 body.
GetTest ==
  [httpMethod |-> S_GET, path |-> S_test, queryStringParameters |-> <<>>,
   body |-> <<>>, isBase64Encoded |-> FALSE, headers |-> <<>>,
   requestContext |-> WithIp(<<S_ip>>)]
PostTest ==
  [httpMethod |-> S_POST, path |-> S_test,
   queryStringParameters |-> <<<<S_a, S_b>>>>,
   body |-> <<S_b64>>, isBase64Encoded |-> TRUE,
   headers |-> <<<<<<S_accept, S_text_plain>>>>>>,
   requestContext |-> WithIp(<<<<>>>>)]
Events == {GetTest, PostTest}

\* The events a request is built from on its own: body null, "", a text and
\* a base64 text, each with either encoding flag; headers null or an object;
\* requestContext missing, without identity, without sourceIp, or whole.
RequestBodies == {<<>>, <<<<>>>>, <<S_he>>, <<S_b64>>}
RequestContexts ==
  {<<>>, <<[identity |-> <<>>]>>, WithIp(<<>>), WithIp(<<S_ip>>)}
RequestEvents ==
  [httpMethod : {S_GET}, path : {S_test},
   queryStringParameters : {<<>>, <<<<S_a, S_b>>>>},
   body : RequestBodies, isBase64Encoded : BOOLEAN,
   headers : {<<>>, <<<<<<S_accept, S_text_plain>>>>>>},
   requestContext : RequestContexts]

\* The invocation context.
Contexts ==
  [functionName : {S_fn}, awsRequestId : {S_id1, S_id2},
   memoryLimitInMB : {S_128}]
TheContext ==
  [functionName |-> S_fn, awsRequestId |-> S_id1, memoryLimitInMB |-> S_128]
NoContext ==
  [functionName |-> <<>>, awsRequestId |-> <<>>, memoryLimitInMB |-> <<>>]

\* options.isBinary: not given, () => true, one that throws for every
\* response, one that throws for a 2xx response and is false otherwise.
IsBinaryModes == {"default", "yes", "throws", "throwsOn2xx"}

Options == [isBinary : IsBinaryModes, production : BOOLEAN]

Boom == MakeError(S_boom, 0, TRUE)
Teapot == MakeError(S_teapot, 418, FALSE)
\* The errors a middleware throws or rejects with.
Errors == {Boom, Teapot}
\* The error an 'error' event carries.
EmittedError == MakeError(S_emitted, 0, TRUE)
\* What a failed read of a streamed body rejects with.
DrainError == MakeError(S_read_failed, 0, TRUE)
\* What a throwing isBinary throws.
PredicateError == MakeError(S_bad_predicate, 0, TRUE)
\* What arrayBuffer() rejects with for a body that was read already.
BodyUsedError == MakeError(S_already_used, 0, TRUE)
\* The TypeError of calling cb when no callback was passed.
CallbackError == MakeError(S_not_a_function, 0, TRUE)
\* What a callback that throws throws.
CallbackThrown == MakeError(S_cb_failed, 0, TRUE)

\* new Response({ statusCode: 200, body: createBody("response") })
OkResponse == TextResponse(200, S_response, <<>>)
\* A response whose body is a stream: "h", e-acute and a stray byte.
StreamResponse ==
  [statusCode |-> 201, headers |-> <<<<S_set_cookie, S_v1>>,
                                      <<S_set_cookie, S_v2>>>>,
   body |-> <<104, 195, 169, 255>>, stream |-> TRUE]
AppResponses == {OkResponse, StreamResponse}

NoRes == [statusCode |-> 0, headers |-> <<>>, body |-> <<>>, stream |-> FALSE]
NoErr == [name |-> <<>>, message |-> <<>>, status |-> 0, stack |-> <<>>]

\* req.url
Url == format(event.path, event.queryStringParameters)

(***************************************************************************)
(* The request (index.ts:126-151).                                         *)
(***************************************************************************)
\* createHeaders(event.headers): no lines for null
createHeaders(h) == IF h = <<>> THEN <<>> ELSE h[1]

\* event.body ? Buffer.from(event.body, ...) : undefined: <<>> for undefined,
\* which null and the empty string both give.
rawBody(ev) ==
  IF ev.body = <<>> \/ ev.body[1] = <<>> THEN <<>>
  ELSE <<IF ev.isBase64Encoded THEN Base64Decode(ev.body[1])
         ELSE Utf8Encode(ev.body[1])>>

\* event.requestContext.identity.sourceIp throws a TypeError when
\* requestContext or identity is missing.
SourceIpThrows(ev) ==
  ev.requestContext = <<>> \/ ev.requestContext[1].identity = <<>>

\* const connection = { encrypted: true, remoteAddress: ...sourceIp }:
\* remoteAddress is <<>> when sourceIp is undefined.
connection(ev) ==
  [encrypted |-> TRUE,
   remoteAddress |-> ev.requestContext[1].identity[1].sourceIp]

\* new LambdaRequest({ method, url, connection, headers, body, context })
LambdaRequestNoContext(o) ==
  [method |-> o.method, url |-> o.url, connection |-> o.connection,
   headers |-> o.headers, body |-> o.body, context |-> NoContext]
LambdaRequest(o) ==
  [method |-> o.method, url |-> o.url, connection |-> o.connection,
   headers |-> o.headers, body |-> o.body, context |-> o.context]

NoReq ==
  [method |-> <<>>, url |-> <<>>,
   connection |-> [encrypted |-> FALSE, remoteAddress |-> <<>>],
   headers |-> <<>>, body |-> <<>>, context |-> NoContext]

(***************************************************************************)
(* Queued reactions.  kind "react": the reaction to the middleware's       *)
(* promise (index.ts:196-199), settle "resolve" or "reject"; kind "then":  *)
(* the callback of index.ts:166-181 with the drained body; kind "catch":   *)
(* the handler of index.ts:182.  origin names the trigger the delivery     *)
(* began with, sentAt the number of cb calls made when sendResponse was    *)
(* entered for it.                                                         *)
(***************************************************************************)
Task(kind, settle, res, err, origin, sentAt) ==
  [kind |-> kind, settle |-> settle, res |-> res, err |-> err,
   origin |-> origin, sentAt |-> sentAt, started |-> FALSE]

\* res.started = true (index.ts:161), kept with the response's task.
MarkStarted(t) == [t EXCEPT !.started = TRUE]

\* if (didRespond) return Promise.resolve()
AlreadyRespondedNever == FALSE
AlreadyRespondedAnywhere == didRespond \/ other.didRespond
AlreadyResponded == didRespond

\* sendResponse(res) up to the call of res.body.arrayBuffer(): the queue and
\* the streams it leaves, from the queue mq and the streams ss.  The promise
\* of a body held in memory resolves at once; that of a stream, or of a body
\* a listener has read, settles later.
sendResponse(res, origin, mq, ss) ==
  IF AlreadyResponded THEN [mq |-> mq, ss |-> ss]
  ELSE IF bodyUsed \/ res.stream
    THEN [mq |-> mq,
          ss |-> Append(ss, MarkStarted(Task("then", "-", res, NoErr, origin,
                                             Len(callbacks))))]
  ELSE [mq |-> Append(mq, MarkStarted(Task("then", "-", res, NoErr, origin,
                                           Len(callbacks)))),
        ss |-> ss]

\* The trigger of the first sendResponse call to pass the check of
\* index.ts:159, after a call for the trigger origin.
FirstPath(origin) ==
  IF firstPath = "none" /\ ~AlreadyResponded THEN origin ELSE firstPath

\* The handler is declared ": void": it returns undefined.
HandlerReturn == "undefined"

\* options.logError(err), called by mapError.
Log(err) == IF Len(logged) < MaxLog THEN Append(logged, err) ELSE logged

\* isBinary(res)
isBinaryNever(res) == FALSE
isBinaryThrows(res) ==
  \/ options.isBinary = "throws"
  \/ options.isBinary = "throwsOn2xx" /\ res.statusCode >= 200
     /\ res.statusCode < 300
isBinary(res) == options.isBinary = "yes"

\* The arguments of cb (index.ts:180), with the response they come from, its
\* bookkeeping when cb is called (index.ts:161, 177-178) and the trigger of
\* its delivery.
CallbackArgsErrFirst(t) ==
  [err |-> <<PredicateError>>,
   result |-> [statusCode |-> t.res.statusCode],
   res |-> t.res, origin |-> t.origin, sentAt |-> t.sentAt]
CallbackArgsNoDrain(t) ==
  [err |-> <<>>,
   result |-> [statusCode |-> t.res.statusCode,
               headers |-> toHeaders(t.res.headers),
               body |-> <<>>,
               isBase64Encoded |-> isBinary(t.res)],
   res |-> t.res, origin |-> t.origin, sentAt |-> t.sentAt]
CallbackArgsNotFinished(t) ==
  [err |-> <<>>,
   result |-> [statusCode |-> t.res.statusCode,
               headers |-> toHeaders(t.res.headers),
               body |-> BufferToString(t.res.body, isBinary(t.res)),
               isBase64Encoded |-> isBinary(t.res)],
   res |-> t.res, origin |-> t.origin, sentAt |-> t.sentAt,
   started |-> t.started, finished |-> FALSE, bytesTransferred |-> 0]
CallbackArgs(t) ==
  [err |-> <<>>,
   result |-> [statusCode |-> t.res.statusCode,
               headers |-> toHeaders(t.res.headers),
               body |-> BufferToString(t.res.body, isBinary(t.res)),
               isBase64Encoded |-> isBinary(t.res)],
   res |-> t.res, origin |-> t.origin, sentAt |-> t.sentAt,
   started |-> t.started, finished |-> TRUE,
   bytesTransferred |-> Len(t.res.body)]

(***************************************************************************)
(* The handler's own steps.                                                *)
(***************************************************************************)
\* The platform calls the handler: index.ts:126-194 build the request,
\* register the listeners and mark the request finished; then app is called.
\* A TypeError of index.ts:141 leaves the handler before anything is
\* registered (pc "failed").
Invoke ==
  /\ pc = "idle"
  /\ IF SourceIpThrows(event)
     THEN /\ pc' = "failed"
          /\ req' = req
     ELSE /\ pc' = "inApp"
          /\ req' = LambdaRequest([method |-> event.httpMethod,
                                   url |-> Url,
                                   connection |-> connection(event),
                                   headers |-> createHeaders(event.headers),
                                   body |-> rawBody(event),
                                   context |-> context])
  /\ UNCHANGED <<event, options, mw, outcome, didRespond, microtasks, streams,
                 callbacks, logged, signals, settledAt, abortEarly,
                 abortClean, hdrIn, hdrOut, emitted, inputVars, otherVars,
                 returned, firstPath, drainFailedEarly, reentered>>

\* app(req, next) returns a Response: Promise.resolve(res).then(...) queues
\* the reaction at once.
AppReturnsResponse ==
  /\ pc = "inApp"
  /\ \E r \in AppResponses :
       /\ microtasks' =
            Append(microtasks,
                   Task("react", "resolve", r, NoErr, "resolve", 0))
       /\ outcome' = [kind |-> "response", res |-> r, err |-> NoErr]
  /\ pc' = "returned"
  /\ returned' = HandlerReturn
  /\ mw' = "settled"
  /\ settledAt' = Len(callbacks)
  /\ UNCHANGED <<event, options, didRespond, streams, callbacks, logged,
                 signals, abortEarly, abortClean, hdrIn, hdrOut, emitted, inputVars, otherVars,
                 req, firstPath, drainFailedEarly, reentered>>

\* app(req, next) returns a promise: the handler returns, the promise is
\* settled later (or is settled already: MwResolve, MwNext or MwReject follow
\* before anything else runs).
AppReturnsPromise ==
  /\ pc = "inApp"
  /\ pc' = "returned"
  /\ returned' = HandlerReturn
  /\ mw' = "pending"
  /\ UNCHANGED <<event, options, outcome, didRespond, microtasks, streams,
                 callbacks, logged, signals, settledAt, abortEarly,
                 abortClean, hdrIn, hdrOut, emitted, inputVars, otherVars,
                 req, firstPath, drainFailedEarly, reentered>>

\* app(req, next) throws: nothing around the call at index.ts:196 catches
\* it, the handler throws to the platform.
AppThrows ==
  /\ pc = "inApp"
  /\ pc' = "threw"
  /\ \E e \in Errors : outcome' = [kind |-> "throw", res |-> NoRes, err |-> e]
  /\ UNCHANGED <<event, options, mw, didRespond, microtasks, streams,
                 callbacks, logged, signals, settledAt, abortEarly,
                 abortClean, hdrIn, hdrOut, emitted, inputVars, otherVars,
                 req, returned, firstPath, drainFailedEarly, reentered>>

(***************************************************************************)
(* Steps of the code outside the handler.                                  *)
(***************************************************************************)
Settle(kind, task) ==
  /\ pc = "returned"
  /\ mw = "pending"
  /\ mw' = "settled"
  /\ outcome' = [kind |-> kind, res |-> task.res, err |-> task.err]
  /\ settledAt' = Len(callbacks)
  /\ microtasks' = Append(microtasks, task)
  /\ UNCHANGED <<event, options, pc, didRespond, streams, callbacks, logged,
                 signals, abortEarly, abortClean, hdrIn, hdrOut, emitted, inputVars, otherVars,
                 req, returned, firstPath, drainFailedEarly, reentered>>

\* The middleware's promise resolves with a response of its own.
MwResolve ==
  \E r \in AppResponses :
    Settle("response", Task("react", "resolve", r, NoErr, "resolve", 0))

\* The middleware handled nothing and returned next().
MwNext ==
  Settle("next",
         Task("react", "resolve", finalhandler(event.httpMethod, Url),
              NoErr, "resolve", 0))

\* The middleware's promise rejects.
MwReject ==
  \E e \in Errors :
    Settle("reject", Task("react", "reject", NoRes, e, "reject", 0))

\* The request has been handed to the middleware (index.ts:196): the
\* middleware, or code outside, can emit events on it.
Emittable == pc \in {"inApp", "returned", "threw"}

\* The listeners of index.ts:186-189 are registered: they are before app is
\* called.
ListeningLate == pc \in {"returned", "threw"}
Listening == pc \in {"inApp", "returned", "threw"}

\* req.events.emit("abort"): the listener of index.ts:187-189 runs at once.
EmitAbort ==
  /\ Emittable
  /\ signals < MaxSignals
  /\ signals' = signals + 1
  /\ LET early == callbacks = <<>> /\ mw \in {"none", "pending"}
         s == IF Listening
              THEN sendResponse(AbortResponse, "abort", microtasks, streams)
              ELSE [mq |-> microtasks, ss |-> streams]
     IN  /\ abortEarly' = (abortEarly \/ early)
         /\ abortClean' =
              (abortClean \/ (early /\ microtasks = <<>> /\ streams = <<>>))
         /\ microtasks' = s.mq
         /\ streams' = s.ss
  /\ firstPath' = IF Listening THEN FirstPath("abort") ELSE firstPath
  /\ UNCHANGED <<event, options, pc, mw, outcome, didRespond, callbacks,
                 logged, settledAt, hdrIn, hdrOut, emitted, inputVars, otherVars,
                 req, returned, drainFailedEarly, reentered>>

\* req.events.emit("error", err): the listener of index.ts:186 runs at once.
EmitError ==
  /\ Emittable
  /\ signals < MaxSignals
  /\ signals' = signals + 1
  /\ LET s == IF Listening
              THEN sendResponse(mapError(EmittedError, options.production),
                                "error", microtasks, streams)
              ELSE [mq |-> microtasks, ss |-> streams]
     IN  /\ logged' = IF Listening THEN Log(EmittedError) ELSE logged
         /\ microtasks' = s.mq
         /\ streams' = s.ss
  /\ firstPath' = IF Listening THEN FirstPath("error") ELSE firstPath
  /\ UNCHANGED <<event, options, pc, mw, outcome, didRespond, callbacks,
                 settledAt, abortEarly, abortClean, hdrIn, hdrOut, emitted, inputVars, otherVars,
                 req, returned, drainFailedEarly, reentered>>

\* A streamed body ends: arrayBuffer() resolves with its bytes.
StreamEnd ==
  /\ ~bodyUsed
  /\ \E i \in 1..Len(streams) :
       /\ microtasks' = Append(microtasks, streams[i])
       /\ streams' = RemoveAt(streams, i)
  /\ UNCHANGED <<event, options, pc, mw, outcome, didRespond, callbacks,
                 logged, signals, settledAt, abortEarly, abortClean,
                 hdrIn, hdrOut, emitted, inputVars, otherVars,
                 req, returned, firstPath, drainFailedEarly, reentered>>

\* A streamed body fails, or a body was read already: arrayBuffer() rejects,
\* which the catch handles.
StreamError ==
  /\ \E i \in 1..Len(streams) :
       /\ microtasks' =
            Append(microtasks,
                   Task("catch", "-", NoRes,
                        IF bodyUsed THEN BodyUsedError ELSE DrainError,
                        streams[i].origin, streams[i].sentAt))
       /\ streams' = RemoveAt(streams, i)
       /\ drainFailedEarly' =
            (drainFailedEarly
               \/ (callbacks = <<>> /\ streams[i].origin = "resolve"
                     /\ streams[i].res = outcome.res))
  /\ UNCHANGED <<event, options, pc, mw, outcome, didRespond, callbacks,
                 logged, signals, settledAt, abortEarly, abortClean,
                 hdrIn, hdrOut, emitted, inputVars, otherVars,
                 req, returned, firstPath, reentered>>

(***************************************************************************)
(* Promise reactions: the first queued one runs, once the handler has      *)
(* returned to the event loop.                                             *)
(***************************************************************************)
Running(kind) ==
  /\ pc \in {"returned", "threw"}
  /\ microtasks # <<>>
  /\ Head(microtasks).kind = kind

\* res => sendResponse(res), err => sendResponse(mapError(err))
RunReaction ==
  /\ Running("react")
  /\ LET t == Head(microtasks)
         res == IF t.settle = "resolve" THEN t.res
                ELSE mapError(t.err, options.production)
         s == sendResponse(res, t.origin, Tail(microtasks), streams)
     IN  /\ logged' = IF t.settle = "reject" THEN Log(t.err) ELSE logged
         /\ microtasks' = s.mq
         /\ streams' = s.ss
         /\ firstPath' = FirstPath(t.origin)
  /\ mw' = "reacted"
  /\ UNCHANGED <<event, options, pc, outcome, didRespond, callbacks, signals,
                 settledAt, abortEarly, abortClean, hdrIn, hdrOut, emitted, inputVars, otherVars,
                 req, returned, drainFailedEarly, reentered>>

\* The callback of index.ts:166-181: the result is built, the flag is set
\* and cb is called; a throw of isBinary rejects into the catch, and so does
\* the TypeError of calling a cb that was not passed and a throw of cb
\* itself, both after the flag is set.
RunThen ==
  /\ Running("then")
  /\ LET t == Head(microtasks) IN
       IF isBinaryThrows(t.res)
       THEN /\ microtasks' =
                 Append(Tail(microtasks),
                        Task("catch", "-", NoRes, PredicateError, t.origin,
                             t.sentAt))
            /\ UNCHANGED <<didRespond, callbacks>>
       ELSE IF ~cbGiven
       THEN /\ microtasks' =
                 Append(Tail(microtasks),
                        Task("catch", "-", NoRes, CallbackError, t.origin,
                             t.sentAt))
            /\ didRespond' = TRUE
            /\ UNCHANGED callbacks
       ELSE IF cbThrows
       THEN /\ microtasks' =
                 Append(Tail(microtasks),
                        Task("catch", "-", NoRes, CallbackThrown, t.origin,
                             t.sentAt))
            /\ didRespond' = TRUE
            /\ callbacks' = Append(callbacks, CallbackArgs(t))
       ELSE /\ microtasks' = Tail(microtasks)
            /\ didRespond' = TRUE
            /\ callbacks' = Append(callbacks, CallbackArgs(t))
  /\ UNCHANGED <<event, options, pc, mw, outcome, streams, logged, signals,
                 settledAt, abortEarly, abortClean, hdrIn, hdrOut, emitted, inputVars,
                 otherVars, req, returned, firstPath, drainFailedEarly,
                 reentered>>

\* .catch(err => sendResponse(mapError(err)))
RunCatchSwallows ==
  /\ Running("catch")
  /\ microtasks' = Tail(microtasks)
  /\ reentered' =
       (reentered \/ (Head(microtasks).err = DrainError
                        /\ Head(microtasks).origin = "resolve"
                        /\ ~AlreadyResponded))
  /\ UNCHANGED <<event, options, pc, mw, outcome, didRespond, callbacks,
                 logged, streams, signals, settledAt, abortEarly, abortClean,
                 hdrIn, hdrOut, emitted, inputVars, otherVars, req, returned,
                 firstPath, drainFailedEarly>>
RunCatch ==
  /\ Running("catch")
  /\ LET t == Head(microtasks)
         s == sendResponse(mapError(t.err, options.production), t.origin,
                           Tail(microtasks), streams)
     IN  /\ logged' = Log(t.err)
         /\ microtasks' = s.mq
         /\ streams' = s.ss
         /\ firstPath' = FirstPath(t.origin)
         /\ reentered' =
              (reentered \/ (t.err = DrainError /\ t.origin = "resolve"
                               /\ ~AlreadyResponded))
  /\ UNCHANGED <<event, options, pc, mw, outcome, didRespond, callbacks,
                 signals, settledAt, abortEarly, abortClean, hdrIn, hdrOut, emitted, inputVars, otherVars,
                 req, returned, drainFailedEarly>>

(***************************************************************************)
(* The specification of one invocation.                                    *)
(***************************************************************************)
\* The variables of an invocation the platform has not begun: the closure
\* of a call of the handler (index.ts:121-156) holds all of them.
Idle(ev, ctx) ==
  [event |-> ev, context |-> ctx, cbGiven |-> TRUE, cbThrows |-> FALSE,
   bodyUsed |-> FALSE,
   pc |-> "idle", mw |-> "none",
   outcome |-> [kind |-> "none", res |-> NoRes, err |-> NoErr],
   didRespond |-> FALSE, microtasks |-> <<>>, streams |-> <<>>,
   callbacks |-> <<>>, logged |-> <<>>, signals |-> 0, settledAt |-> -1,
   abortEarly |-> FALSE, abortClean |-> FALSE, req |-> NoReq,
   returned |-> "none", firstPath |-> "none", drainFailedEarly |-> FALSE,
   reentered |-> FALSE]

\* The options of the tests: none.
DefaultOptions == [isBinary |-> "default", production |-> FALSE]

\* The state every invocation begins in, whatever its inputs; a second
\* invocation is in flight only where a specification says so.
Fresh ==
  /\ focus = 1
  /\ other = Idle(GetTest, NoContext)
  /\ req = NoReq
  /\ returned = "none"
  /\ firstPath = "none"
  /\ drainFailedEarly = FALSE
  /\ reentered = FALSE
  /\ emitted = <<>>

\* An invocation without a callback, and one whose bodies a listener has
\* read, are taken with the event and options of the tests; the event with
\* a query is taken with the options of the tests, production mode with the
\* default predicate.
Init ==
  /\ event \in Events
  /\ options \in Options
  /\ event = PostTest => options = DefaultOptions
  /\ options.production => options.isBinary = "default"
  /\ context = TheContext
  /\ cbGiven \in BOOLEAN
  /\ bodyUsed \in BOOLEAN
  /\ cbThrows = FALSE
  /\ (~cbGiven \/ bodyUsed) =>
       event = GetTest /\ options = DefaultOptions /\ (cbGiven \/ ~bodyUsed)
  /\ Fresh
  /\ pc = "idle"
  /\ mw = "none"
  /\ outcome = [kind |-> "none", res |-> NoRes, err |-> NoErr]
  /\ didRespond = FALSE
  /\ microtasks = <<>>
  /\ streams = <<>>
  /\ callbacks = <<>>
  /\ logged = <<>>
  /\ signals = 0
  /\ settledAt = -1
  /\ abortEarly = FALSE
  /\ abortClean = FALSE
  /\ hdrIn = <<>>
  /\ hdrOut = <<>>

Next ==
  \/ Invoke
  \/ AppReturnsResponse
  \/ AppReturnsPromise
  \/ AppThrows
  \/ MwResolve
  \/ MwNext
  \/ MwReject
  \/ EmitAbort
  \/ EmitError
  \/ StreamEnd
  \/ StreamError
  \/ RunReaction
  \/ RunThen
  \/ RunCatch

Spec == Init /\ [][Next]_vars

\* An invocation during which no 'error' or 'abort' event is emitted.
NextQuiet ==
  \/ Invoke
  \/ AppReturnsResponse
  \/ AppReturnsPromise
  \/ AppThrows
  \/ MwResolve
  \/ MwNext
  \/ MwReject
  \/ StreamEnd
  \/ StreamError
  \/ RunReaction
  \/ RunThen
  \/ RunCatch

\* The event loop runs every queued reaction; a stream being read ends or
\* fails.
FairSpec ==
  /\ Init
  /\ [][NextQuiet]_vars
  /\ WF_vars(RunReaction)
  /\ WF_vars(RunThen)
  /\ WF_vars(RunCatch)
  /\ WF_vars(StreamEnd \/ StreamError)

(***************************************************************************)
(* toHeaders on its own: a response's header lines are drawn, toHeaders is *)
(* called once.                                                            *)
(***************************************************************************)
S_Set_Cookie == <<83, 101, 116, 45, 67, 111, 111, 107, 105, 101>>
HeaderNames == {S_x, S_te, S_Set_Cookie}
HeaderValues == {S_v1, S_v2, S_v3}
HeaderLines == {<<n, v>> : n \in HeaderNames, v \in HeaderValues}
HeaderInputs == UNION {[1..n -> HeaderLines] : n \in 1..MaxHeaderLines}

InitHeaders ==
  /\ hdrIn \in HeaderInputs
  /\ hdrOut = <<>>
  /\ event = GetTest
  /\ options = DefaultOptions
  /\ context = TheContext
  /\ cbGiven = TRUE
  /\ cbThrows = FALSE
  /\ bodyUsed = FALSE
  /\ Fresh
  /\ pc = "idle"
  /\ mw = "none"
  /\ outcome = [kind |-> "none", res |-> NoRes, err |-> NoErr]
  /\ didRespond = FALSE
  /\ microtasks = <<>>
  /\ streams = <<>>
  /\ callbacks = <<>>
  /\ logged = <<>>
  /\ signals = 0
  /\ settledAt = -1
  /\ abortEarly = FALSE
  /\ abortClean = FALSE

CallToHeaders ==
  /\ hdrIn # <<>>
  /\ hdrOut = <<>>
  /\ hdrOut' = toHeaders(hdrIn)
  /\ UNCHANGED <<handlerVars, hdrIn>>

SpecHeaders == InitHeaders /\ [][CallToHeaders]_vars

(***************************************************************************)
(* The request on its own: an event and a context are drawn, the handler   *)
(* is called and builds the request (index.ts:126-151).                    *)
(***************************************************************************)
InitRequest ==
  /\ event \in RequestEvents
  /\ context \in Contexts
  /\ options = DefaultOptions
  /\ cbGiven = TRUE
  /\ cbThrows = FALSE
  /\ bodyUsed = FALSE
  /\ pc = "idle"
  /\ mw = "none"
  /\ outcome = [kind |-> "none", res |-> NoRes, err |-> NoErr]
  /\ didRespond = FALSE
  /\ microtasks = <<>>
  /\ streams = <<>>
  /\ callbacks = <<>>
  /\ logged = <<>>
  /\ signals = 0
  /\ settledAt = -1
  /\ abortEarly = FALSE
  /\ abortClean = FALSE
  /\ hdrIn = <<>>
  /\ hdrOut = <<>>
  /\ Fresh

SpecRequest == InitRequest /\ [][Invoke]_vars

(***************************************************************************)
(* Two invocations of one handler in flight.  Every variable of an         *)
(* invocation is a local of the handler call (index.ts:126-156), so each   *)
(* invocation has its own; only options is shared.  Each step runs code of *)
(* one invocation, the one in focus; Switch lets the other one run next.   *)
(* A handler runs to its return without interruption.  The order in which  *)
(* reactions of different invocations run is left open, which allows every *)
(* order the event loop can produce.                                       *)
(***************************************************************************)
\* The variables of the invocation in focus.
Park ==
  [event |-> event, context |-> context, cbGiven |-> cbGiven,
   cbThrows |-> cbThrows, bodyUsed |-> bodyUsed, pc |-> pc, mw |-> mw, outcome |-> outcome,
   didRespond |-> didRespond, microtasks |-> microtasks,
   streams |-> streams, callbacks |-> callbacks, logged |-> logged,
   signals |-> signals, settledAt |-> settledAt, abortEarly |-> abortEarly,
   abortClean |-> abortClean, req |-> req, returned |-> returned,
   firstPath |-> firstPath, drainFailedEarly |-> drainFailedEarly,
   reentered |-> reentered]

\* The event loop turns to the other invocation.
Switch ==
  /\ pc # "inApp"
  /\ focus' = 3 - focus
  /\ other' = Park
  /\ event' = other.event
  /\ context' = other.context
  /\ cbGiven' = other.cbGiven
  /\ cbThrows' = other.cbThrows
  /\ bodyUsed' = other.bodyUsed
  /\ pc' = other.pc
  /\ mw' = other.mw
  /\ outcome' = other.outcome
  /\ didRespond' = other.didRespond
  /\ microtasks' = other.microtasks
  /\ streams' = other.streams
  /\ callbacks' = other.callbacks
  /\ logged' = other.logged
  /\ signals' = other.signals
  /\ settledAt' = other.settledAt
  /\ abortEarly' = other.abortEarly
  /\ abortClean' = other.abortClean
  /\ req' = other.req
  /\ returned' = other.returned
  /\ firstPath' = other.firstPath
  /\ drainFailedEarly' = other.drainFailedEarly
  /\ reentered' = other.reentered
  /\ UNCHANGED <<options, hdrIn, hdrOut, emitted>>

\* The variables of invocation i.
Inv(i) == IF focus = i THEN Park ELSE other

\* Invocation 1 is for GET /test, invocation 2 for POST /test?a=b with
\* another context.
InitTwo ==
  /\ options \in [isBinary : {"default", "yes"}, production : BOOLEAN]
  /\ focus = 1
  /\ other = Idle(PostTest, [TheContext EXCEPT !.awsRequestId = S_id2])
  /\ event = GetTest
  /\ context = TheContext
  /\ cbGiven = TRUE
  /\ cbThrows = FALSE
  /\ bodyUsed = FALSE
  /\ pc = "idle"
  /\ mw = "none"
  /\ outcome = [kind |-> "none", res |-> NoRes, err |-> NoErr]
  /\ didRespond = FALSE
  /\ microtasks = <<>>
  /\ streams = <<>>
  /\ callbacks = <<>>
  /\ logged = <<>>
  /\ signals = 0
  /\ settledAt = -1
  /\ abortEarly = FALSE
  /\ abortClean = FALSE
  /\ hdrIn = <<>>
  /\ hdrOut = <<>>
  /\ req = NoReq
  /\ returned = "none"
  /\ firstPath = "none"
  /\ drainFailedEarly = FALSE
  /\ reentered = FALSE
  /\ emitted = <<>>

NextTwo == NextQuiet \/ Switch

SpecTwo == InitTwo /\ [][NextTwo]_vars

(***************************************************************************)
(* An invocation whose callback throws when it is called (index.ts:180),   *)
(* with the event and options of the tests.                                *)
(***************************************************************************)
InitCallbackThrows ==
  /\ event = GetTest
  /\ options = DefaultOptions
  /\ context = TheContext
  /\ cbGiven = TRUE
  /\ cbThrows = TRUE
  /\ bodyUsed = FALSE
  /\ Fresh
  /\ pc = "idle"
  /\ mw = "none"
  /\ outcome = [kind |-> "none", res |-> NoRes, err |-> NoErr]
  /\ didRespond = FALSE
  /\ microtasks = <<>>
  /\ streams = <<>>
  /\ callbacks = <<>>
  /\ logged = <<>>
  /\ signals = 0
  /\ settledAt = -1
  /\ abortEarly = FALSE
  /\ abortClean = FALSE
  /\ hdrIn = <<>>
  /\ hdrOut = <<>>

SpecCallbackThrows == InitCallbackThrows /\ [][Next]_vars

(***************************************************************************)
(* The signal-based handler (part_001:225-267): the request and the        *)
(* delivery report their progress through req.signal; there is no 'error'  *)
(* listener, and the rejection handler of sendResponse is the second       *)
(* argument of then, so that it handles a failed read of the body only.    *)
(***************************************************************************)
\* The events given to it: body null, "", a text and a base64 text with
\* either encoding flag; no query and no headers (null in both the single
\* and the multi-value field).
SignalEvents ==
  [httpMethod : {S_GET}, path : {S_test},
   queryStringParameters : {<<>>}, multiValueQueryStringParameters : {<<>>},
   headers : {<<>>}, multiValueHeaders : {<<>>},
   body : RequestBodies, isBase64Encoded : BOOLEAN,
   requestContext : {WithIp(<<S_ip>>)}]

\* req.signal.emit(name, bytes): bytes 0 for a signal without argument.
Signal(name, bytes) == [name |-> name, bytes |-> bytes]

\* new LambdaRequest(url, { headers, method, body, context })
SignalLambdaRequest(input, o) ==
  [method |-> o.method, url |-> input, headers |-> o.headers,
   body |-> o.body, context |-> o.context]

\* for (const key of headers.keys()) result[key] = headers.getAll(key)
toMultiValueHeaders(headers) ==
  [i \in 1..Len(asObject(headers)) |->
     <<asObject(headers)[i].key, asObject(headers)[i].vals>>]

\* sendResponse of part_001:225-230 up to res.buffer(): the pending reads,
\* the queued reactions and the signals emitted after the call.
signalSendResponse(res, origin, mq, ss, em) ==
  IF AlreadyResponded THEN [mq |-> mq, ss |-> ss, em |-> em]
  ELSE IF res.stream
    THEN [mq |-> mq,
          ss |-> Append(ss, Task("then", "-", res, NoErr, origin,
                                 Len(callbacks))),
          em |-> Append(em, Signal("responseStarted", 0))]
  ELSE [mq |-> Append(mq, Task("then", "-", res, NoErr, origin,
                               Len(callbacks))),
        ss |-> ss,
        em |-> Append(em, Signal("responseStarted", 0))]

\* The arguments of callback (part_001:243-248).
SignalCallbackArgs(t) ==
  [err |-> <<>>,
   result |-> [statusCode |-> t.res.statusCode,
               multiValueHeaders |-> toMultiValueHeaders(t.res.headers),
               body |-> BufferToString(t.res.body, isBinary(t.res)),
               isBase64Encoded |-> isBinary(t.res)],
   res |-> t.res, origin |-> t.origin, sentAt |-> t.sentAt]

\* The handler is called and runs up to the call of app (part_001:201-263).
SignalInvoke ==
  /\ pc = "idle"
  /\ pc' = "inApp"
  /\ req' = SignalLambdaRequest(
               format(event.path, event.multiValueQueryStringParameters),
               [headers |-> createHeaders(event.multiValueHeaders),
                method |-> event.httpMethod,
                body |-> rawBody(event),
                context |-> context])
  /\ emitted' =
       emitted \o
         <<Signal("requestStarted", 0),
           Signal("requestBytes",
                  IF rawBody(event) = <<>> THEN 0
                  ELSE Len(rawBody(event)[1])),
           Signal("requestStarted", 0)>>
  /\ UNCHANGED <<event, options, mw, outcome, didRespond, microtasks, streams,
                 callbacks, logged, signals, settledAt, abortEarly,
                 abortClean, hdrIn, hdrOut, inputVars, otherVars,
                 returned, firstPath, drainFailedEarly, reentered>>

\* req.signal.emit("abort"): the listener of part_001:254-256 runs at once.
SignalAbort ==
  /\ Emittable
  /\ signals < MaxSignals
  /\ signals' = signals + 1
  /\ LET s == signalSendResponse(AbortResponse, "abort", microtasks, streams,
                                 emitted)
     IN  /\ microtasks' = s.mq
         /\ streams' = s.ss
         /\ emitted' = s.em
  /\ firstPath' = FirstPath("abort")
  /\ UNCHANGED <<event, options, pc, mw, outcome, didRespond, callbacks,
                 logged, settledAt, abortEarly, abortClean, hdrIn, hdrOut,
                 inputVars, otherVars, req, returned, drainFailedEarly,
                 reentered>>

\* res => sendResponse(res), err => sendResponse(mapError(err))
\* (part_001:263-266)
SignalReaction ==
  /\ Running("react")
  /\ LET t == Head(microtasks)
         res == IF t.settle = "resolve" THEN t.res
                ELSE mapError(t.err, options.production)
         s == signalSendResponse(res, t.origin, Tail(microtasks), streams,
                                 emitted)
     IN  /\ logged' = IF t.settle = "reject" THEN Log(t.err) ELSE logged
         /\ microtasks' = s.mq
         /\ streams' = s.ss
         /\ emitted' = s.em
         /\ firstPath' = FirstPath(t.origin)
  /\ mw' = "reacted"
  /\ UNCHANGED <<event, options, pc, outcome, didRespond, callbacks, signals,
                 settledAt, abortEarly, abortClean, hdrIn, hdrOut, inputVars,
                 otherVars, req, returned, drainFailedEarly, reentered>>

\* The callback of part_001:231-249.  Nothing handles what it throws: a
\* throw of isBinary leaves the flag and the signals as they are, the
\* TypeError of calling a callback that was not passed comes after both.
SignalThen ==
  /\ Running("then")
  /\ microtasks' = Tail(microtasks)
  /\ LET t == Head(microtasks) IN
       IF isBinaryThrows(t.res)
       THEN UNCHANGED <<didRespond, emitted, callbacks>>
       ELSE /\ didRespond' = TRUE
            /\ emitted' = emitted \o <<Signal("responseBytes", Len(t.res.body)),
                                        Signal("responseEnded", 0)>>
            /\ callbacks' = IF cbGiven
                            THEN Append(callbacks, SignalCallbackArgs(t))
                            ELSE callbacks
  /\ UNCHANGED <<event, options, pc, mw, outcome, streams, logged, signals,
                 settledAt, abortEarly, abortClean, hdrIn, hdrOut, inputVars,
                 otherVars, req, returned, firstPath, drainFailedEarly,
                 reentered>>

\* err => sendResponse(mapError(err)) (part_001:250), for a read that failed
SignalCatch ==
  /\ Running("catch")
  /\ LET t == Head(microtasks)
         s == signalSendResponse(mapError(t.err, options.production),
                                 t.origin, Tail(microtasks), streams,
                                 emitted)
     IN  /\ logged' = Log(t.err)
         /\ microtasks' = s.mq
         /\ streams' = s.ss
         /\ emitted' = s.em
         /\ firstPath' = FirstPath(t.origin)
  /\ UNCHANGED <<event, options, pc, mw, outcome, didRespond, callbacks,
                 signals, settledAt, abortEarly, abortClean, hdrIn, hdrOut,
                 inputVars, otherVars, req, returned, drainFailedEarly,
                 reentered>>

InitSignal ==
  /\ event \in SignalEvents
  /\ options \in [isBinary : IsBinaryModes, production : {FALSE}]
  /\ options.isBinary # "default" => event.body = <<>>
  /\ context = TheContext
  /\ cbGiven = TRUE
  /\ cbThrows = FALSE
  /\ bodyUsed = FALSE
  /\ Fresh
  /\ pc = "idle"
  /\ mw = "none"
  /\ outcome = [kind |-> "none", res |-> NoRes, err |-> NoErr]
  /\ didRespond = FALSE
  /\ microtasks = <<>>
  /\ streams = <<>>
  /\ callbacks = <<>>
  /\ logged = <<>>
  /\ signals = 0
  /\ settledAt = -1
  /\ abortEarly = FALSE
  /\ abortClean = FALSE
  /\ hdrIn = <<>>
  /\ hdrOut = <<>>

NextSignal ==
  \/ SignalInvoke
  \/ AppReturnsResponse
  \/ AppReturnsPromise
  \/ AppThrows
  \/ MwResolve
  \/ MwNext
  \/ MwReject
  \/ SignalAbort
  \/ StreamEnd
  \/ StreamError
  \/ SignalReaction
  \/ SignalThen
  \/ SignalCatch

SpecSignal == InitSignal /\ [][NextSignal]_vars

\* The values the header lines carry for a name, in their order.
RECURSIVE InputValues(_, _)
InputValues(lines, name) ==
  IF lines = <<>> THEN <<>>
  ELSE (IF LowerStr(Head(lines)[1]) = LowerStr(name)
        THEN <<Head(lines)[2]>> ELSE <<>>) \o InputValues(Tail(lines), name)

(***************************************************************************)
(* Properties.                                                             *)
(***************************************************************************)
Delivered(i) == callbacks[i].result
FromMiddleware(i) == callbacks[i].origin \in {"resolve", "reject"}

\* C1: within one invocation the platform callback is invoked at most once,
\* whatever completion triggers occur and however they interleave, also when
\* a trigger arrives while an earlier response's body is being drained.
C1_CallbackAtMostOnce == Len(callbacks) <= 1

\* C2: once the middleware has settled (resolved with a response or
\* rejected), the platform callback the handler was given is eventually
\* invoked, the queued reactions being run fairly.
C2_SettledLeadsToCallback ==
  (cbGiven /\ mw \in {"settled", "reacted"}) ~> (callbacks # <<>>)

\* C3: an error of the middleware, thrown from the call app(req, next) or
\* delivered as a rejection, is given to the error mapper; the handler never
\* throws to the platform because of it.
C3_HandlerNeverThrows ==
  outcome.kind \in {"throw", "reject"} => pc # "threw"

\* The middleware has rejected, no event was emitted, the predicate is the
\* default one and a result has been delivered.
C4_RejectionCase ==
  /\ outcome.kind = "reject"
  /\ signals = 0
  /\ options.isBinary = "default"
  /\ callbacks # <<>>

\* The one result delivered is the mapped error's and the error was logged
\* once.
C4_MappedResult(status) ==
  /\ Len(callbacks) = 1
  /\ Delivered(1).statusCode = status
  /\ Delivered(1).isBase64Encoded = FALSE
  /\ ~options.production => Contains(Delivered(1).body, outcome.err.message)
  /\ logged = <<outcome.err>>

\* C4, as claimed: the middleware rejects, nothing else triggers a
\* completion, the predicate is the default one: the delivered result has
\* status 500 and isBase64Encoded false, its body contains the error's
\* message unless in production mode, and logError was called exactly once,
\* with that error.
C4_Original == C4_RejectionCase => C4_MappedResult(500)

\* C4, amended: the same for an error that sets no status of its own.
C4_RejectionMappedTo500 ==
  (C4_RejectionCase /\ outcome.err.status = 0) => C4_MappedResult(500)

C4_Witness ==
  C4_RejectionCase /\ outcome.err.status = 0 /\ ~options.production

\* C5: every call of the platform callback passes null as the error and a
\* result record as the second argument, on every path.
C5_NullErrorAndResult ==
  \A i \in 1..Len(callbacks) :
    /\ callbacks[i].err = <<>>
    /\ DOMAIN Delivered(i) =
         {"statusCode", "headers", "body", "isBase64Encoded"}

C5_Witness ==
  /\ \E i \in 1..Len(callbacks) : callbacks[i].origin = "abort"
  /\ \E i \in 1..Len(callbacks) : callbacks[i].origin = "resolve"
  /\ \E i \in 1..Len(callbacks) : callbacks[i].origin = "error"

\* The first result delivered is the abort's: status 444, empty body.
FirstIsAbortResult ==
  callbacks # <<>> =>
    Delivered(1).statusCode = 444 /\ Delivered(1).body = <<>>

\* C6, as claimed: an abort signalled while no result has been delivered and
\* the middleware has not settled makes the delivered result 444 with an
\* empty body.
C6_Original == abortEarly => FirstIsAbortResult

\* C6, amended: the same when, moreover, no other delivery (of an earlier
\* 'error' or 'abort' event) is under way as the abort is signalled.
C6_CleanAbortDelivers444 == abortClean => FirstIsAbortResult

C6_Witness ==
  abortClean /\ callbacks # <<>> /\ callbacks[1].origin = "abort"

\* The abort's result was delivered first, and the middleware settled after
\* a delivery.
C7_AbortCompleted ==
  callbacks # <<>> /\ callbacks[1].origin = "abort" /\ settledAt >= 1

\* C7: once an abort has completed the invocation, the middleware settling
\* later delivers nothing: no call of the callback comes from it, and the
\* result the abort delivered stays as it was.
C7_LateSettlementDropped ==
  C7_AbortCompleted =>
    /\ \A i \in 1..Len(callbacks) : ~FromMiddleware(i)
    /\ Delivered(1) =
         [statusCode |-> 444, headers |-> <<>>, body |-> <<>>,
          isBase64Encoded |-> isBinary(AbortResponse)]

C7_Witness == C7_AbortCompleted /\ mw = "reacted"

\* The i-th call delivers what the middleware's next() resolved with, under
\* the default predicate.
C8_FallbackCase(i) ==
  /\ outcome.kind = "next"
  /\ callbacks[i].origin = "resolve"
  /\ options.isBinary = "default"

\* The result delivered for the fallback's response, the body given.
C8_FallbackResult(i, body) ==
  /\ Delivered(i).statusCode = 404
  /\ Delivered(i).body = body
  /\ ValuesOf(Delivered(i).headers, S_content_type) = <<S_text_plain>>
  /\ ValuesOf(Delivered(i).headers, S_content_length)
       = <<DecStr(Len(Utf8Encode(body)))>>
  /\ Delivered(i).isBase64Encoded = FALSE

\* C8, as claimed: when the middleware returns next(), the result is 404
\* with body "Cannot <METHOD> <PATH>" of the event's method and path, a
\* text/plain content type, the body's byte length as content-length and
\* isBase64Encoded false.
C8_Original ==
  \A i \in 1..Len(callbacks) :
    C8_FallbackCase(i) =>
      C8_FallbackResult(i, S_Cannot \o event.httpMethod \o <<32>>
                           \o event.path)

\* C8, amended: the body names the request URL, which is the event's path
\* followed by "?" and the query when the event has query parameters; for
\* GET /test without a query it is "Cannot GET /test", content-length "16".
C8_FallbackNamesUrl ==
  \A i \in 1..Len(callbacks) :
    C8_FallbackCase(i) =>
      /\ C8_FallbackResult(
           i,
           S_Cannot \o event.httpMethod \o <<32>> \o event.path
             \o (IF event.queryStringParameters = <<>> THEN <<>>
                 ELSE <<63>> \o S_a \o <<61>> \o S_b))
      /\ (event.httpMethod = S_GET /\ event.queryStringParameters = <<>>) =>
           /\ Delivered(i).body = S_Cannot_GET_test
           /\ ValuesOf(Delivered(i).headers, S_content_length) = <<<<49, 54>>>>

C8_Witness ==
  \E i \in 1..Len(callbacks) :
    C8_FallbackCase(i) /\ event.queryStringParameters # <<>>

\* The i-th call delivers the response the middleware returned, under the
\* default predicate.
C9_ResponseCase(i) ==
  /\ outcome.kind = "response"
  /\ callbacks[i].origin = "resolve"
  /\ callbacks[i].res = outcome.res
  /\ options.isBinary = "default"

\* C9: a response the middleware returned, delivered under the default
\* predicate, gives a result with the response's status code, the UTF-8 text
\* of the drained bytes as body and isBase64Encoded false; status 200 with
\* body "response" gives body "response" and content-length "8".
C9_ResponseTranslated ==
  \A i \in 1..Len(callbacks) :
    C9_ResponseCase(i) =>
      /\ Delivered(i).statusCode = outcome.res.statusCode
      /\ Delivered(i).body = Utf8Decode(outcome.res.body)
      /\ Delivered(i).isBase64Encoded = FALSE
      /\ outcome.res = OkResponse =>
           /\ Delivered(i).statusCode = 200
           /\ Delivered(i).body = S_response
           /\ ValuesOf(Delivered(i).headers, S_content_length) = <<<<56>>>>
      /\ outcome.res = StreamResponse =>
           Delivered(i).body = <<104, 233, 65533>>

C9_Witness ==
  /\ \E i \in 1..Len(callbacks) :
       C9_ResponseCase(i) /\ outcome.res = OkResponse

\* C10: flattening loses no header value: for every header name of the
\* response carrying n values, the result holds n entries for it under
\* pairwise distinct keys, from which the same values in the same order are
\* read back by comparing keys without regard to case; the result holds no
\* header the response lacks.
C10_FlatteningLosesNoValue ==
  hdrOut # <<>> =>
    /\ \A i \in 1..Len(hdrIn) :
         ValuesOf(hdrOut, hdrIn[i][1]) = InputValues(hdrIn, hdrIn[i][1])
    /\ \A j, k \in 1..Len(hdrOut) : j # k => hdrOut[j][1] # hdrOut[k][1]
    /\ \A j \in 1..Len(hdrOut) :
         \E i \in 1..Len(hdrIn) :
           LowerStr(hdrOut[j][1]) = LowerStr(hdrIn[i][1])

\* "aMOp/w==", the base64 text of the bytes of StreamResponse
S_aMOp == <<97, 77, 79, 112, 47, 119, 61, 61>>

\* C11: when isBinary returns true for the delivered response, the result
\* has isBase64Encoded true and its body is the base64 encoding of the
\* drained bytes: decoding the body gives the response's bytes back (the
\* bytes 68 c3 a9 ff are delivered as "aMOp/w==").
C11_BinaryBodyRoundTrips ==
  \A i \in 1..Len(callbacks) :
    options.isBinary = "yes" =>
      /\ Delivered(i).isBase64Encoded = TRUE
      /\ Base64Decode(Delivered(i).body) = callbacks[i].res.body
      /\ callbacks[i].res = StreamResponse => Delivered(i).body = S_aMOp

C11_Witness ==
  \E i \in 1..Len(callbacks) :
    /\ options.isBinary = "yes"
    /\ callbacks[i].res = StreamResponse
    /\ Delivered(i).isBase64Encoded

\* C12: whenever the event's body field is present, the empty string
\* included, the request has a body whose bytes are the base64 decoding of
\* the field when isBase64Encoded is true and its UTF-8 encoding otherwise;
\* only when the field is absent does the request have no body.
C12_BodyTranslated ==
  pc = "inApp" =>
    IF event.body = <<>> THEN req.body = <<>>
    ELSE req.body = <<IF event.isBase64Encoded
                      THEN Base64Decode(event.body[1])
                      ELSE Utf8Encode(event.body[1])>>

\* C14: building the request never throws: for every event, one without
\* requestContext, identity or sourceIp included, the handler does not leave
\* with an exception before it calls the middleware.
C14_BuildNeverThrows == pc # "failed"

\* C15: the connection of every request built has encrypted true, and
\* remoteAddress is the event's source IP when the event has one and the
\* empty string when it has none.
C15_ConnectionDescriptor ==
  pc = "inApp" =>
    /\ req.connection.encrypted = TRUE
    /\ LET ip == event.requestContext[1].identity[1].sourceIp
       IN  req.connection.remoteAddress = IF ip = <<>> THEN <<<<>>>> ELSE ip

\* C16: the context passed to the handler is the context field of the
\* request the middleware receives, and no step of the invocation changes
\* it.
C16_ContextPassedUnmodified ==
  [][/\ context' = context
     /\ pc' \in {"inApp", "returned", "threw"} => req'.context = context']_vars

C16_Witness ==
  /\ pc = "returned"
  /\ callbacks # <<>>
  /\ req.context = context
  /\ context.awsRequestId = S_id1

\* C13: called with an event and a context and no callback, the handler
\* returns a promise (which resolves to the result of the invocation).
C13_ReturnsPromiseOfResult ==
  (~cbGiven /\ pc = "returned") => returned = "promise"

\* Invocation i has run to its end: its middleware's reaction has run and
\* nothing of it is queued or being read.
C17_Finished(i) ==
  /\ Inv(i).mw = "reacted"
  /\ Inv(i).microtasks = <<>>
  /\ Inv(i).streams = <<>>

\* The response invocation i owes its callback: the middleware's own, the
\* fallback for the invocation's method and URL, or the mapped error.
C17_Owed(i) ==
  LET v == Inv(i) IN
    IF v.outcome.kind = "reject" THEN mapError(v.outcome.err, options.production)
    ELSE IF v.outcome.kind = "next"
      THEN finalhandler(v.event.httpMethod,
                        format(v.event.path, v.event.queryStringParameters))
    ELSE v.outcome.res

\* C17: two invocations of one handler in flight, their steps interleaved
\* in any order: the completion flag of each is set exactly when its own
\* callback was called, each callback is called with results of its own
\* invocation's responses only, and an invocation that has run to its end
\* with no stream failure got exactly one result, for the response it owes,
\* whatever the other invocation did; each request carries its own context.
C17_InvocationsIsolated ==
  \A i \in {1, 2} :
    LET v == Inv(i) IN
      /\ v.didRespond = (v.callbacks # <<>>)
      /\ v.req # NoReq => v.req.context = v.context /\ v.req.url # Inv(3 - i).req.url
      /\ \A k \in 1..Len(v.callbacks) :
           \/ v.callbacks[k].res = C17_Owed(i)
           \/ v.callbacks[k].res = mapError(DrainError, options.production)
      /\ C17_Finished(i) => Len(v.callbacks) = 1
      /\ (C17_Finished(i) /\ ~v.drainFailedEarly) =>
           v.callbacks[1].res = C17_Owed(i)

\* Both invocations have run to their ends, each with the fallback's result
\* for its own URL, and invocation 2 was the last to run.
C17_Witness ==
  /\ focus = 2
  /\ C17_Finished(1)
  /\ C17_Finished(2)
  /\ didRespond
  /\ other.didRespond
  /\ other.outcome.kind = "next"
  /\ outcome.kind = "next"
  /\ callbacks[1].sentAt = 0
  /\ Len(other.logged) = 0

\* C18: among racing completion paths, the path that first passes the
\* didRespond check is the one whose response is delivered, and a path that
\* reaches the check after it delivers nothing.
C18_FirstAtCheckWins ==
  \A i \in 1..Len(callbacks) :
    /\ callbacks[i].origin = firstPath
    /\ callbacks[i].sentAt = 0 => i = 1

\* A callback was passed and the path that began with the middleware's
\* response has run to its end.
C19_RecoveryOver ==
  /\ cbGiven
  /\ mw = "reacted"
  /\ \A k \in 1..Len(microtasks) : microtasks[k].origin # "resolve"
  /\ \A k \in 1..Len(streams) : streams[k].origin # "resolve"

\* The mapped drain error was delivered, the response whose drain failed
\* was not.
C19_MappedDelivered ==
  /\ \E i \in 1..Len(callbacks) :
       /\ callbacks[i].origin = "resolve"
       /\ callbacks[i].res = mapError(DrainError, options.production)
       /\ Delivered(i).statusCode = DefaultErrorStatus
       /\ (~options.production /\ ~Delivered(i).isBase64Encoded) =>
            Contains(Delivered(i).body, S_read_failed)
  /\ \A i \in 1..Len(callbacks) : callbacks[i].res # outcome.res

C20_RecoveryAtMostOnce ==
  (signals = 0 /\ outcome.kind \in {"response", "next"}
     /\ options.isBinary \in {"default", "yes"} /\ cbGiven) =>
    Len(logged) <= 1

\* C21: once a result has been delivered, a later completion attempt (the
\* middleware's resolution or rejection, an 'error' event, an abort) is
\* dropped in silence: the callback is not called again and logError is not
\* called for it.
C21_LateAttemptsSilent ==
  [][(/\ callbacks # <<>>
      /\ didRespond
      /\ signals' # signals \/ (mw = "settled" /\ mw' = "reacted"))
       => (callbacks' = callbacks /\ logged' = logged)]_vars

\* C23: isBase64Encoded of every result is what the isBinary predicate
\* returns for the response delivered, mapped errors and the abort response
\* included, and the body is encoded accordingly; with no isBinary option
\* it is false in every result.
C23_EncodingFollowsPredicate ==
  \A i \in 1..Len(callbacks) :
    /\ Delivered(i).isBase64Encoded = (options.isBinary = "yes")
    /\ Delivered(i).body =
         IF options.isBinary = "yes" THEN Base64Encode(callbacks[i].res.body)
         ELSE Utf8Decode(callbacks[i].res.body)
    /\ options.isBinary = "default" => Delivered(i).isBase64Encoded = FALSE

C23_Witness ==
  \E i \in 1..Len(callbacks) :
    /\ callbacks[i].origin = "error"
    /\ Delivered(i).isBase64Encoded
    /\ Delivered(i).statusCode = DefaultErrorStatus

\* The i-th result is the one of the middleware's rejection; its body is
\* plain text of the length the headers give, the status phrase in
\* production mode, without the error's message or stack, and the error's
\* stack or string otherwise.
C24_ErrorResult(i, status) ==
  LET err == outcome.err
      r == callbacks[i].res
      text == Utf8Decode(r.body)
  IN  /\ Delivered(i).statusCode = status
      /\ ValuesOf(Delivered(i).headers, S_content_type) = <<S_text_plain>>
      /\ ValuesOf(Delivered(i).headers, S_content_length)
           = <<DecStr(Len(r.body))>>
      /\ options.production =>
           /\ text = STATUS_CODES(status)
           /\ ~Contains(text, err.message)
           /\ err.stack # <<>> => ~Contains(text, err.stack)
      /\ ~options.production =>
           text = IF err.stack # <<>> THEN err.stack ELSE ErrString(err)

\* C24 as stated: a middleware error yields status 500 and a plain-text
\* body, the status phrase in production mode and the full detail
\* otherwise, with the matching content-length.
C24_Original ==
  \A i \in 1..Len(callbacks) :
    callbacks[i].origin = "reject" => C24_ErrorResult(i, DefaultErrorStatus)

\* C24: a middleware error yields the error's own status when it has one
\* and 500 otherwise, and a plain-text body: in production mode the phrase
\* of that status with neither the error's message nor its stack, otherwise
\* the full detail; content-length is the byte length of the body.
C24_ErrorPolicy ==
  \A i \in 1..Len(callbacks) :
    callbacks[i].origin = "reject" =>
      C24_ErrorResult(i, IF outcome.err.status # 0 THEN outcome.err.status
                         ELSE DefaultErrorStatus)

C24_Witness ==
  \E i \in 1..Len(callbacks) :
    /\ callbacks[i].origin = "reject"
    /\ options.production
    /\ outcome.err = Boom

\* C28: an exception of the isBinary predicate during delivery is handled
\* with a bounded number of error-mapper calls: the predicate's error is
\* given to the error mapper (and logged) at most once for a delivery.
C28_PredicateErrorBounded ==
  signals = 0 =>
    Cardinality({k \in 1..Len(logged) : logged[k] = PredicateError}) <= 1

\* C22: an 'error' or 'abort' event emitted while nothing has been
\* delivered, inside the middleware's call included, starts one delivery
\* through sendResponse; the delivery an 'error' event starts is of the
\* error mapper's response for the error, as for a rejection.
C22_ErrorEventMapped ==
  [][(signals' = signals + 1 /\ ~didRespond) =>
       LET q == IF Len(microtasks') > Len(microtasks) THEN microtasks'
                ELSE streams'
       IN  /\ Len(microtasks') + Len(streams')
                = Len(microtasks) + Len(streams) + 1
           /\ q[Len(q)].kind = "then"
           /\ q[Len(q)].origin \in {"error", "abort"}
           /\ q[Len(q)].origin = "error" =>
                /\ q[Len(q)].res.statusCode = DefaultErrorStatus
                /\ ~options.production =>
                     Contains(Utf8Decode(q[Len(q)].res.body), S_emitted)]_vars

\* An 'error' event was emitted inside the middleware's call and its mapped
\* response was delivered.
C22_Witness ==
  /\ firstPath = "error"
  /\ mw = "none"
  /\ pc = "threw"
  /\ Len(callbacks) = 1
  /\ callbacks[1].origin = "error"
  /\ Delivered(1).statusCode = DefaultErrorStatus

\* C25: delivery changes nothing of a response but its bookkeeping: a
\* response is started before its body is drained; when the callback is
\* called for it, it is finished and bytesTransferred is the length of the
\* drained bytes, and the result has its status code and headers as they
\* were; a finished response is a started one.
C25_OnlyBookkeepingChanges ==
  /\ \A k \in 1..Len(microtasks) :
       microtasks[k].kind = "then" => microtasks[k].started
  /\ \A k \in 1..Len(streams) : streams[k].started
  /\ \A i \in 1..Len(callbacks) :
       /\ callbacks[i].finished
       /\ callbacks[i].finished => callbacks[i].started
       /\ callbacks[i].bytesTransferred = Len(callbacks[i].res.body)
       /\ Delivered(i).statusCode = callbacks[i].res.statusCode
       /\ Delivered(i).headers = toHeaders(callbacks[i].res.headers)
       /\ (callbacks[i].origin = "resolve" /\ outcome.kind = "response"
             /\ callbacks[i].res.statusCode = outcome.res.statusCode) =>
            callbacks[i].res = outcome.res

C25_Witness ==
  \E i \in 1..Len(callbacks) :
    /\ callbacks[i].res = StreamResponse
    /\ callbacks[i].started
    /\ callbacks[i].finished
    /\ callbacks[i].bytesTransferred = 4

\* C26: the completion flag starts false, is never reset, and between
\* asynchronous steps it is true exactly when the callback has been invoked
\* at least once in this invocation.
C26_FlagIffCallbackInvoked ==
  [][/\ didRespond => didRespond'
     /\ ~didRespond => callbacks = <<>>
     /\ didRespond' <=> (callbacks' # <<>>)]_vars

\* The step that runs the catch handler for the error a callback threw.
C27_CatchOfCallbackThrow ==
  /\ Running("catch")
  /\ Head(microtasks).err = CallbackThrown
  /\ microtasks' # microtasks
  /\ signals' = signals
  /\ mw' = mw
  /\ Len(streams') >= Len(streams)

\* C27: when the callback throws, it is not invoked a second time: the
\* thrown error is routed to the error mapper and logged, its mapped
\* response is dropped by the completion guard and nothing is left pending.
C27_ThrowingCallbackCalledOnce ==
  [][/\ cbThrows' => Len(callbacks') <= 1
     /\ C27_CatchOfCallbackThrow =>
          /\ microtasks' = Tail(microtasks)
          /\ streams' = streams
          /\ callbacks' = callbacks
          /\ didRespond'
          /\ Len(logged) < MaxLog => logged' = Append(logged, CallbackThrown)]_vars

\* The request signals of an event: started, bytes with the byte length of
\* the decoded body (0 without a body), ended.
C29_RequestSignals ==
  <<Signal("requestStarted", 0),
    Signal("requestBytes",
           IF rawBody(event) = <<>> THEN 0 ELSE Len(rawBody(event)[1])),
    Signal("requestEnded", 0)>>

\* C29: in the signal-based handler the request signals started, bytes,
\* ended have been emitted in that order, each exactly once, when the
\* middleware is invoked; and a callback is invoked right after
\* responseBytes (with the drained length) and responseEnded of its
\* response, whose responseStarted was emitted earlier.
C29_SignalsInOrder ==
  [][/\ pc' # "idle" =>
          /\ Len(emitted') >= 3
          /\ SubSeq(emitted', 1, 3) = C29_RequestSignals
          /\ \A k \in 4..Len(emitted') :
               emitted'[k].name \notin
                 {"requestStarted", "requestBytes", "requestEnded"}
     /\ Len(callbacks') > Len(callbacks) =>
          /\ emitted' =
               emitted \o
                 <<Signal("responseBytes",
                          Len(callbacks'[Len(callbacks')].res.body)),
                   Signal("responseEnded", 0)>>
          /\ Cardinality({k \in 1..Len(emitted) :
                            emitted[k].name = "responseStarted"})
               >= Len(callbacks')]_vars

=============================================================================
